---- MODULE Spec2Model ----
(***************************************************************************)
(* A model of web/app.js, the diagnostic page of botmaker-to-chatwoot:     *)
(* the log buffer, the NDJSON parser, the state store (applyData,          *)
(* setActiveDataset), the prefix load, the local-file load and the         *)
(* self-test, as a state machine of handlers and of the continuations of   *)
(* their awaits.                                                           *)
(***************************************************************************)
EXTENDS Integers, Sequences, FiniteSets, TLC

VARIABLES
    state,        \* app.js:12  { summary, contacts, chats, messages, dataset }
    logLines,     \* app.js:20  the log buffer
    procs,        \* the async calls in flight: position and local variables
    button,       \* #btnTestRun: its disabled flag
    testStatus,   \* #testStatus: the class updateStatus gave it
    alerts,       \* the alert() dialogs shown so far
    booted,       \* init() has run (DOMContentLoaded)
    server,       \* the resources under ../data/<prefix>/
    files,        \* the files selected in the four file inputs
    view,         \* what the page shows: the cards, the table, the buttons
    loads2,       \* the async calls of the second script in flight
    calls,        \* history: how many calls the page has received
    lastCall,     \* history: the last call, its argument and what it did
    applyCount,   \* history: how many times applyData has run
    lastPayload,  \* history: the payload of the last applyData
    input,        \* the text handed to parseNDJSON when it is run on its own
    output        \* what that run returned

vars == <<state, logLines, procs, button, testStatus, alerts, booted, server,
          files, view, loads2, calls, lastCall, applyCount, lastPayload, input,
          output>>

(***************************************************************************)
(* Bounds of the model.                                                    *)
(***************************************************************************)
\* calls (loads, self-tests, dataset switches) in one behaviour of Spec
MaxOps == 2
\* characters of an NDJSON text in SpecParse
MaxLen == 4
\* the records of a dataset whose views are checked
MaxRecords == 2
\* pushLog calls in one behaviour of SpecLog
MaxPushes == 402

(***************************************************************************)
(* JSON values, tagged: t names the type, v holds the content (a sequence  *)
(* of values for an array, a function from keys to values for an object).  *)
(***************************************************************************)
JNull == [t |-> "null", v |-> 0]
JUndefined == [t |-> "undefined", v |-> 0]
JBool(b) == [t |-> "bool", v |-> b]
JNum(n) == [t |-> "num", v |-> n]
JStr(s) == [t |-> "str", v |-> s]
JArr(s) == [t |-> "arr", v |-> s]
JObj(f) == [t |-> "obj", v |-> f]

\* payload?.key : undefined unless the payload is an object holding the key
Get(j, key) ==
    IF j.t = "obj" /\ key \in DOMAIN j.v THEN j.v[key] ELSE JUndefined

\* Array.isArray(x)
IsArray(j) == j.t = "arr"

\* x ?? null
OrNull(j) == IF j.t \in {"null", "undefined"} THEN JNull ELSE j

\* !x for a JSON value
Falsy(j) ==
    \/ j.t \in {"null", "undefined"}
    \/ j.t = "bool" /\ j.v = FALSE
    \/ j.t = "num" /\ j.v = 0
    \/ j.t = "str" /\ j.v = ""

(***************************************************************************)
(* A text is a sequence of characters; a text that may be null (the result *)
(* of fetchText) is a record.                                              *)
(***************************************************************************)
NullText == [has |-> FALSE, v |-> <<>>]
SomeText(s) == [has |-> TRUE, v |-> s]
\* !text : null or the empty string
FalsyText(x) == ~x.has \/ x.v = <<>>

NL == "\n"
CR == "\r"
SP == " "
Whitespace == {SP, CR, NL}

(***************************************************************************)
(* The log buffer.                                                         *)
(***************************************************************************)
LogCap == 400

LogEntry(message, level, details) ==
    [level |-> level, message |-> message, details |-> details]

\* the buffer trimmed one entry too early
pushLog_capOffByOne(lines, message, level, details) ==
    LET pushed == Append(lines, LogEntry(message, level, details))
    IN  IF Len(pushed) >= LogCap THEN Tail(pushed) ELSE pushed

\* pushLog: the entry is appended, then the oldest entry is shifted out if the
\* buffer holds more than 400. The timestamp and the mirror in #logOutput are
\* functions of the buffer and are left out.
pushLog(lines, message, level, details) ==
    LET pushed == Append(lines, LogEntry(message, level, details))
    IN  IF Len(pushed) > LogCap THEN Tail(pushed) ELSE pushed

(***************************************************************************)
(* parseNDJSON.                                                            *)
(***************************************************************************)
\* text.split(/\r?\n/): a line ends at each \n, and one \r right before the
\* \n belongs to the separator.
RECURSIVE SplitFrom(_, _, _, _)
SplitFrom(s, i, cur, acc) ==
    IF i > Len(s) THEN Append(acc, cur)
    ELSE IF s[i] = NL
         THEN LET line == IF Len(cur) > 0 /\ cur[Len(cur)] = CR
                          THEN SubSeq(cur, 1, Len(cur) - 1) ELSE cur
              IN  SplitFrom(s, i + 1, <<>>, Append(acc, line))
         ELSE SplitFrom(s, i + 1, Append(cur, s[i]), acc)

SplitLines(s) == SplitFrom(s, 1, <<>>, <<>>)

\* line.trim()
RECURSIVE TrimLeft(_)
TrimLeft(s) ==
    IF Len(s) > 0 /\ s[1] \in Whitespace THEN TrimLeft(Tail(s)) ELSE s

RECURSIVE TrimRight(_)
TrimRight(s) ==
    IF Len(s) > 0 /\ s[Len(s)] \in Whitespace
    THEN TrimRight(SubSeq(s, 1, Len(s) - 1)) ELSE s

Trim(s) == TrimRight(TrimLeft(s))

RECURSIVE Ones(_)
Ones(n) == IF n = 0 THEN 0 ELSE 10 * Ones(n - 1) + 1

\* JSON.parse of a trimmed line over the characters 1 x n u l and white
\* space: a run of 1s is a number, null is null, anything else throws.
JSONparse(s) ==
    IF Len(s) > 0 /\ \A i \in 1..Len(s) : s[i] = "1"
    THEN [ok |-> TRUE, value |-> JNum(Ones(Len(s)))]
    ELSE IF s = <<"n", "u", "l", "l">>
         THEN [ok |-> TRUE, value |-> JNull]
         ELSE [ok |-> FALSE, value |-> JUndefined]

\* the forEach of parseNDJSON from line `index` (1-based) on
\* The entry of a line that does not decode: the label of the source (NDJSON
\* when none is given) and, as details, the line's 1-based position. The
\* decoder's message is left out.
ParseError(sourceLabel) ==
    <<"Nao foi possivel interpretar uma linha em",
      IF sourceLabel = "" THEN "NDJSON" ELSE sourceLabel>>

RECURSIVE ParseLines(_, _, _, _, _)
ParseLines(lines, index, out, log, sourceLabel) ==
    IF index > Len(lines) THEN [out |-> out, log |-> log]
    ELSE LET trimmed == Trim(lines[index])
             decoded == JSONparse(trimmed)
         IN  IF trimmed = <<>>
             THEN ParseLines(lines, index + 1, out, log, sourceLabel)
             ELSE IF decoded.ok
                  THEN ParseLines(lines, index + 1, Append(out, decoded.value),
                                  log, sourceLabel)
                  ELSE ParseLines(lines, index + 1, out,
                                  pushLog(log, ParseError(sourceLabel), "error",
                                          <<index>>),
                                  sourceLabel)

\* a malformed line ends the parse
parseNDJSON_stopAtError(text, sourceLabel, log) ==
    LET lines == SplitLines(text.v)
        bad == {i \in 1..Len(lines) :
                   Trim(lines[i]) # <<>> /\ ~JSONparse(Trim(lines[i])).ok}
        upto == IF bad = {} THEN Len(lines)
                ELSE CHOOSE i \in bad : \A j \in bad : i <= j
    IN  IF FalsyText(text) THEN [out |-> <<>>, log |-> log]
        ELSE ParseLines(SubSeq(lines, 1, upto), 1, <<>>, log, sourceLabel)

\* the position of a malformed line counted over the non-blank lines only
parseNDJSON_countNonBlank(text, sourceLabel, log) ==
    IF FalsyText(text) THEN [out |-> <<>>, log |-> log]
    ELSE ParseLines(SelectSeq(SplitLines(text.v), LAMBDA l : Trim(l) # <<>>),
                    1, <<>>, log, sourceLabel)

\* parseNDJSON(text, sourceLabel): the records decoded, and the log after it.
parseNDJSON(text, sourceLabel, log) ==
    IF FalsyText(text) THEN [out |-> <<>>, log |-> log]
    ELSE ParseLines(SplitLines(text.v), 1, <<>>, log, sourceLabel)

(***************************************************************************)
(* The state store.                                                        *)
(***************************************************************************)
DATASETS == <<"contacts", "chats", "messages">>
Keys == {DATASETS[i] : i \in 1..Len(DATASETS)}

InitialState ==
    [summary |-> JNull, contacts |-> <<>>, chats |-> <<>>, messages |-> <<>>,
     dataset |-> "contacts"]

\* Array.isArray(x) ? x : []
ArrayOrEmpty(j) == IF IsArray(j) THEN j.v ELSE <<>>

\* !state[state.dataset] || state[state.dataset].length === 0
ActiveEmpty(st) ==
    CASE st.dataset \in Keys -> Len(st[st.dataset]) = 0
      [] st.dataset = "summary" ->
            Falsy(st.summary) \/ (st.summary.t = "arr" /\ Len(st.summary.v) = 0)
      [] st.dataset = "dataset" -> FALSE
      [] OTHER -> TRUE

\* DATASETS.find((d) => state[d.key].length > 0), or contacts
FirstNonEmpty(st) ==
    LET nonEmpty == {i \in 1..Len(DATASETS) : Len(st[DATASETS[i]]) > 0}
    IN  IF nonEmpty = {} THEN "contacts"
        ELSE DATASETS[CHOOSE i \in nonEmpty : \A j \in nonEmpty : i <= j]

\* refreshUI throws where updateMetricsCard reads item.exported_to_chatwoot
\* of a record that is null.
RefreshThrows(st) ==
    \E key \in Keys : \E i \in 1..Len(st[key]) : st[key][i].t = "null"

Counts(st) == <<Len(st.contacts), Len(st.chats), Len(st.messages)>>

\* a dataset the payload does not carry as an array keeps its old records
applyData_keepOld(st, log, payload, sourceLabel) ==
    LET keep(key) == IF IsArray(Get(payload, key)) THEN Get(payload, key).v
                     ELSE st[key]
        replaced == [st EXCEPT !.summary = OrNull(Get(payload, "summary")),
                               !.contacts = keep("contacts"),
                               !.chats = keep("chats"),
                               !.messages = keep("messages")]
        selected == [replaced EXCEPT !.dataset =
                        IF ActiveEmpty(replaced) THEN FirstNonEmpty(replaced) ELSE @]
        threw == RefreshThrows(selected)
    IN  [state |-> selected,
         log |-> IF threw THEN log
                 ELSE pushLog(log, <<sourceLabel, "dados atualizados">>, "success",
                              Counts(selected)),
         threw |-> threw]

\* the active key is re-selected whenever another dataset comes first
applyData_alwaysReselect(st, log, payload, sourceLabel) ==
    LET replaced == [st EXCEPT !.summary = OrNull(Get(payload, "summary")),
                               !.contacts = ArrayOrEmpty(Get(payload, "contacts")),
                               !.chats = ArrayOrEmpty(Get(payload, "chats")),
                               !.messages = ArrayOrEmpty(Get(payload, "messages"))]
        selected == [replaced EXCEPT !.dataset = FirstNonEmpty(replaced)]
        threw == RefreshThrows(selected)
    IN  [state |-> selected,
         log |-> IF threw THEN log
                 ELSE pushLog(log, <<sourceLabel, "dados atualizados">>, "success",
                              Counts(selected)),
         threw |-> threw]

\* applyData(payload, sourceLabel): the store after it, the log after it, and
\* whether refreshUI threw (the success entry is then never pushed).
applyData(st, log, payload, sourceLabel) ==
    LET replaced == [st EXCEPT !.summary = OrNull(Get(payload, "summary")),
                               !.contacts = ArrayOrEmpty(Get(payload, "contacts")),
                               !.chats = ArrayOrEmpty(Get(payload, "chats")),
                               !.messages = ArrayOrEmpty(Get(payload, "messages"))]
        selected == [replaced EXCEPT !.dataset =
                        IF ActiveEmpty(replaced) THEN FirstNonEmpty(replaced) ELSE @]
        threw == RefreshThrows(selected)
    IN  [state |-> selected,
         log |-> IF threw THEN log
                 ELSE pushLog(log, <<sourceLabel, "dados atualizados">>, "success",
                              Counts(selected)),
         threw |-> threw]

\* the key is stored without being looked up in DATASETS
setActiveDataset_unchecked(st, log, key) ==
    [state |-> [st EXCEPT !.dataset = key],
     log |-> pushLog(log, <<"Visualizacao alterada para", key>>, "info", <<>>)]

\* a switch to a dataset without records is refused
setActiveDataset_skipEmpty(st, log, key) ==
    IF key = "" \/ key \notin Keys \/ Len(st[key]) = 0
    THEN [state |-> st, log |-> log]
    ELSE [state |-> [st EXCEPT !.dataset = key],
          log |-> pushLog(log, <<"Visualizacao alterada para", key>>, "info", <<>>)]

\* setActiveDataset(key): a key that is empty (or missing: "" stands for null
\* and undefined too, !key being true of all three) or that DATASETS does not
\* hold changes nothing.
setActiveDataset(st, log, key) ==
    IF key = "" \/ key \notin Keys
    THEN [state |-> st, log |-> log]
    ELSE [state |-> [st EXCEPT !.dataset = key],
          log |-> pushLog(log, <<"Visualizacao alterada para", key>>, "info", <<>>)]


(***************************************************************************)
(* The views.  A text is a sequence of tokens: a token is one character    *)
(* where the character matters to escapeHtml or to JSON (& < > " ' \) and   *)
(* else a run of other characters (a key, a word, the digits of a number). *)
(* What a view holds is a sequence of segments: markup of the script's own *)
(* templates, data inserted as markup (innerHTML, insertAdjacentHTML) and  *)
(* data inserted as text (textContent).                                    *)
(***************************************************************************)
QUOTE == "\""
Special == {"&", "<", ">", QUOTE, "'"}

Entity(c) ==
    CASE c = "&" -> "&amp;"
      [] c = "<" -> "&lt;"
      [] c = ">" -> "&gt;"
      [] c = QUOTE -> "&quot;"
      [] c = "'" -> "&#39;"

\* the quote characters are left as they are
escapeHtml_noQuotes(text) ==
    [i \in 1..Len(text) |->
        IF text[i] \in {"&", "<", ">"} THEN Entity(text[i]) ELSE text[i]]

\* escapeHtml(value), of a value that is a text already
escapeHtml(text) ==
    [i \in 1..Len(text) |-> IF text[i] \in Special THEN Entity(text[i]) ELSE text[i]]

\* the keys the objects of the model use, in the order sort() gives them
\* (UTF-16 code units: < comes before the letters)
KeyOrder ==
    <<"<", "a", "b", "chats", "contacts", "error", "exported_to_chatwoot", "hint",
      "info", "loaded", "messages", "summary", "total">>

\* the members of a set of keys, sorted
Sorted(keys) == SelectSeq(KeyOrder, LAMBDA k : k \in keys)

\* a.join(sep) of texts
RECURSIVE Join(_, _)
Join(parts, sep) ==
    IF parts = <<>> THEN <<>>
    ELSE IF Len(parts) = 1 THEN parts[1]
    ELSE parts[1] \o sep \o Join(Tail(parts), sep)

\* JSON.stringify(value), compact; the keys of an object in sorted order
RECURSIVE JSONstringify(_)
JSONstringify(j) ==
    CASE j.t \in {"null", "undefined"} -> <<"null">>
      [] j.t = "bool" -> IF j.v THEN <<"true">> ELSE <<"false">>
      [] j.t = "num" -> <<ToString(j.v)>>
      [] j.t = "str" ->
            <<QUOTE>> \o (IF j.v \in {QUOTE, "\\"} THEN <<"\\", j.v>> ELSE <<j.v>>)
                      \o <<QUOTE>>
      [] j.t = "arr" ->
            <<"[">> \o Join([i \in 1..Len(j.v) |-> JSONstringify(j.v[i])], <<",">>)
                    \o <<"]">>
      [] j.t = "obj" ->
            LET keys == Sorted(DOMAIN j.v)
            IN  <<"{">> \o Join([i \in 1..Len(keys) |->
                                    <<QUOTE, keys[i], QUOTE, ":">>
                                        \o JSONstringify(j.v[keys[i]])], <<",">>)
                        \o <<"}">>

\* String(value) of a number or a string
String(j) == IF j.t = "num" THEN <<ToString(j.v)>> ELSE <<j.v>>

Markup(s) == [kind |-> "markup", s |-> s]
Html(s) == [kind |-> "html", s |-> s]
Text(s) == [kind |-> "text", s |-> s]

\* objects and arrays are inserted as they are
formatValue_rawObjects(value) ==
    CASE value.t \in {"null", "undefined"} -> <<Markup(<<"<span class=muted>-</span>">>)>>
      [] value.t \in {"obj", "arr"} ->
            <<Markup(<<"<code>">>), Html(JSONstringify(value)), Markup(<<"</code>">>)>>
      [] value.t = "bool" -> <<Markup(IF value.v THEN <<"true">> ELSE <<"false">>)>>
      [] OTHER -> <<Html(escapeHtml(String(value)))>>

\* formatValue(value): the markup of a table cell. (No JSON value is a Date.)
formatValue(value) ==
    CASE value.t \in {"null", "undefined"} -> <<Markup(<<"<span class=muted>-</span>">>)>>
      [] value.t \in {"obj", "arr"} ->
            <<Markup(<<"<code>">>), Html(escapeHtml(JSONstringify(value))),
              Markup(<<"</code>">>)>>
      [] value.t = "bool" -> <<Markup(IF value.v THEN <<"true">> ELSE <<"false">>)>>
      [] OTHER -> <<Html(escapeHtml(String(value)))>>

\* record[key] of a record that is not null, for a key of KeyOrder: undefined
\* unless the record is an object holding the key (numbers, strings and
\* arrays have no property of these names)
Field(record, key) == Get(record, key)

\* the page as the script finds it: the cards hidden, nothing rendered
InitialView ==
    [hidden |-> [summaryCard |-> TRUE, statsCard |-> TRUE, samplesCard |-> TRUE,
                 dataTableCard |-> TRUE, dataTable |-> TRUE, tableEmptyState |-> FALSE],
     summary |-> <<>>,
     metrics |-> <<>>,
     head |-> <<>>,
     body |-> <<>>,
     buttons |-> [k \in Keys |-> [count |-> 0, active |-> FALSE, empty |-> FALSE]]]

\* DATASETS.some((d) => state[d.key].length > 0)
HasRecords(st) == \E k \in Keys : Len(st[k]) > 0

\* updateDatasetButtons()
updateDatasetButtons(st, v) ==
    [v EXCEPT !.buttons = [k \in Keys |->
                              [count |-> Len(st[k]), active |-> st.dataset = k,
                               empty |-> Len(st[k]) = 0]]]

SummaryPlaceholder == JObj([info |-> JStr("Sem summary carregado")])

\* updateSummaryCard(): the summary, or the placeholder, as the text of a pre
\* (the indentation JSON.stringify is asked for is left out)
updateSummaryCard(st, v) ==
    IF Falsy(st.summary) /\ ~HasRecords(st)
    THEN [v EXCEPT !.hidden.summaryCard = TRUE, !.summary = <<>>]
    ELSE [v EXCEPT !.hidden.summaryCard = FALSE,
                   !.summary = <<Markup(<<"<pre>">>),
                                 Text(JSONstringify(IF Falsy(st.summary)
                                                    THEN SummaryPlaceholder
                                                    ELSE st.summary)),
                                 Markup(<<"</pre>">>)>>]

\* records.filter((item) => item.exported_to_chatwoot === true).length
Exported(records) ==
    Cardinality({i \in 1..Len(records) :
                    Field(records[i], "exported_to_chatwoot") = JBool(TRUE)})

\* a record counts as exported when its field is truthy
updateMetricsCard_truthy(st, v) ==
    IF ~HasRecords(st)
    THEN [v EXCEPT !.hidden.statsCard = TRUE, !.metrics = <<>>]
    ELSE [v EXCEPT !.hidden.statsCard = FALSE,
                   !.metrics = [i \in 1..Len(DATASETS) |->
                                   <<Len(st[DATASETS[i]]),
                                     Cardinality({n \in 1..Len(st[DATASETS[i]]) :
                                        ~Falsy(Field(st[DATASETS[i]][n],
                                                     "exported_to_chatwoot"))})>>]]

\* updateMetricsCard(), where it does not throw (see RefreshThrows): a line
\* per dataset with its count and its exported count
updateMetricsCard(st, v) ==
    IF ~HasRecords(st)
    THEN [v EXCEPT !.hidden.statsCard = TRUE, !.metrics = <<>>]
    ELSE [v EXCEPT !.hidden.statsCard = FALSE,
                   !.metrics = [i \in 1..Len(DATASETS) |->
                                   <<Len(st[DATASETS[i]]),
                                     Exported(st[DATASETS[i]])>>]]

\* updateSamplesCard(): the samples themselves are text and are left out
updateSamplesCard(st, v) ==
    [v EXCEPT !.hidden.samplesCard = ~HasRecords(st)]

\* the keys of the records that are objects and no arrays
Columns(records) ==
    UNION {DOMAIN records[i].v : i \in {n \in 1..Len(records) : records[n].t = "obj"}}

Th(col) == <<Markup(<<"<th>">>), Html(escapeHtml(<<col>>)), Markup(<<"</th>">>)>>
Td(value) == <<Markup(<<"<td>">>)>> \o formatValue(value) \o <<Markup(<<"</td>">>)>>

\* the columns are those of the first record alone
updateDataTable_firstRecord(st, v) ==
    LET records == st[st.dataset]
        columnList == Sorted(IF records[1].t = "obj" THEN DOMAIN records[1].v ELSE {})
        shown == [updateDatasetButtons(st, v) EXCEPT !.hidden.dataTableCard = FALSE]
    IN  IF ~HasRecords(st)
        THEN [v EXCEPT !.hidden.dataTableCard = TRUE, !.hidden.tableEmptyState = FALSE,
                       !.hidden.dataTable = TRUE, !.head = <<>>, !.body = <<>>]
        ELSE IF Len(records) = 0
        THEN [shown EXCEPT !.hidden.tableEmptyState = FALSE, !.hidden.dataTable = TRUE,
                           !.head = <<>>, !.body = <<>>]
        ELSE [shown EXCEPT !.hidden.tableEmptyState = TRUE, !.hidden.dataTable = FALSE,
                           !.head = [c \in 1..Len(columnList) |-> Th(columnList[c])],
                           !.body = [r \in 1..Len(records) |->
                                        [c \in 1..Len(columnList) |->
                                            Td(IF Falsy(records[r]) THEN JUndefined
                                               ELSE Field(records[r], columnList[c]))]]]

\* updateDataTable(): nothing without records; the buttons and the empty
\* notice when the active dataset has none; else a header cell per column and
\* a row per record with a cell per column
updateDataTable(st, v) ==
    LET records == st[st.dataset]
        columnList == Sorted(Columns(records))
        shown == [updateDatasetButtons(st, v) EXCEPT !.hidden.dataTableCard = FALSE]
    IN  IF ~HasRecords(st)
        THEN [v EXCEPT !.hidden.dataTableCard = TRUE, !.hidden.tableEmptyState = FALSE,
                       !.hidden.dataTable = TRUE, !.head = <<>>, !.body = <<>>]
        ELSE IF Len(records) = 0
        THEN [shown EXCEPT !.hidden.tableEmptyState = FALSE, !.hidden.dataTable = TRUE,
                           !.head = <<>>, !.body = <<>>]
        ELSE [shown EXCEPT !.hidden.tableEmptyState = TRUE, !.hidden.dataTable = FALSE,
                           !.head = [c \in 1..Len(columnList) |-> Th(columnList[c])],
                           !.body = [r \in 1..Len(records) |->
                                        [c \in 1..Len(columnList) |->
                                            Td(IF Falsy(records[r]) THEN JUndefined
                                               ELSE Field(records[r], columnList[c]))]]]

\* refreshUI(): the five updates in their order; when updateMetricsCard throws
\* the table and the samples stay as they were
refreshUI(st, v) ==
    LET summarised == updateSummaryCard(st, updateDatasetButtons(st, v))
    IN  IF RefreshThrows(st)
        THEN [summarised EXCEPT !.hidden.statsCard = FALSE]
        ELSE updateSamplesCard(st, updateDataTable(st, updateMetricsCard(st, summarised)))


(***************************************************************************)
(* The resources of a data directory and the two fetch helpers.  A         *)
(* resource is missing (the response is not ok), unreachable (fetch        *)
(* rejects) or served with a body: the characters of an NDJSON text, or    *)
(* for a JSON resource what res.json() makes of the body.                  *)
(***************************************************************************)
Malformed == [ok |-> FALSE, value |-> JUndefined]
Doc(j) == [ok |-> TRUE, value |-> j]

Missing == [status |-> "missing", what |-> <<>>]
Unreachable == [status |-> "unreachable", what |-> <<>>]
Served(body) == [status |-> "ok", what |-> body]

ExportStatus(key) == <<key, "_export_status.ndjson">>
Raw(key) == <<key, ".ndjson">>
SummaryJson == <<"summary", ".json">>
LoadSummaryJson == <<"load_summary", ".json">>
Resources ==
    {SummaryJson, LoadSummaryJson}
        \cup {ExportStatus(k) : k \in Keys} \cup {Raw(k) : k \in Keys}

\* fetchJSON(url): the value, or null with a warning when fetch or res.json()
\* throws, or null when the response is not ok.
fetchJSON(res, log) ==
    IF res.status = "missing" THEN [value |-> JNull, log |-> log]
    ELSE IF res.status = "ok" /\ res.what.ok
         THEN [value |-> res.what.value, log |-> log]
         ELSE [value |-> JNull,
               log |-> pushLog(log, <<"Falha ao buscar JSON">>, "warn", <<>>)]

\* fetchText(url): the text, or null with a warning when fetch throws, or
\* null when the response is not ok.
fetchText(res, log) ==
    IF res.status = "missing" THEN [text |-> NullText, log |-> log]
    ELSE IF res.status = "ok"
         THEN [text |-> SomeText(res.what), log |-> log]
         ELSE [text |-> NullText,
               log |-> pushLog(log, <<"Falha ao buscar texto">>, "warn", <<>>)]

(***************************************************************************)
(* An async call in flight: its kind, the resource or file it awaits (pc), *)
(* its local variables, the requests it has issued and how it ended.       *)
(***************************************************************************)
Procs == 1..MaxOps

NoTexts == [k \in Keys |-> NullText]
NoRecords == [k \in Keys |-> <<>>]

Idle ==
    [kind |-> "none", pc |-> <<>>, summary |-> JNull, text |-> NoTexts,
     recs |-> NoRecords, reqs |-> <<>>, result |-> "", nth |-> 0]

\* a call that has returned: its locals are gone, its requests are history
Ended(pr, result) ==
    [Idle EXCEPT !.kind = pr.kind, !.pc = <<"done">>, !.reqs = pr.reqs,
                 !.result = result]

\* a call that has returned after calling applyData, as the nth call of
\* applyData on the page (history)
Applied(pr, result, n) == [Ended(pr, result) EXCEPT !.nth = n]

Awaiting(pr, resource) ==
    [pr EXCEPT !.pc = resource, !.reqs = Append(@, resource)]

InFlight(p) == procs[p].kind # "none" /\ procs[p].pc # <<"done">>

(***************************************************************************)
(* loadByPrefix.                                                           *)
(***************************************************************************)
NextKey(key) == IF key = "contacts" THEN "chats" ELSE "messages"

\* a request that fails at the network level ends the load
AfterFetch_abortOnFailure(pr, log) ==
    IF server[pr.pc].status = "unreachable"
    THEN [proc |-> [pr EXCEPT !.pc = <<"done">>],
          log |-> pushLog(log, <<"Falha ao buscar">>, "warn", <<>>)]
    ELSE [proc |-> IF pr.pc = Raw("messages")
                      \/ (pr.pc = ExportStatus("messages") /\ server[pr.pc].status = "ok")
                   THEN [pr EXCEPT !.pc = <<"finish">>]
                   ELSE Awaiting(pr, IF pr.pc = SummaryJson THEN ExportStatus("contacts")
                                     ELSE IF pr.pc[2] = ".ndjson"
                                          THEN ExportStatus(NextKey(pr.pc[1]))
                                          ELSE Raw(pr.pc[1])),
          log |-> log]

\* the text of a dataset is parsed as soon as it arrives, before the next
\* request is issued
AfterFetch_parseOnArrival(pr, log) ==
    LET r == pr.pc
        key == r[1]
        j == fetchJSON(server[r], log)
        tx == fetchText(server[r], log)
        parsedLog == parseNDJSON(tx.text, "Contatos (prefixo)", tx.log).log
        stored == [pr EXCEPT !.text[key] = tx.text]
        next == IF key = "messages" THEN [stored EXCEPT !.pc = <<"finish">>]
                ELSE Awaiting(stored, ExportStatus(NextKey(key)))
    IN  IF r = SummaryJson
        THEN [proc |-> IF Falsy(j.value)
                       THEN Awaiting([pr EXCEPT !.summary = j.value], LoadSummaryJson)
                       ELSE Awaiting([pr EXCEPT !.summary = j.value],
                                     ExportStatus("contacts")),
              log |-> j.log]
        ELSE IF r = LoadSummaryJson
        THEN [proc |-> Awaiting([pr EXCEPT !.summary = j.value],
                                ExportStatus("contacts")),
              log |-> j.log]
        ELSE IF r = ExportStatus(key) /\ FalsyText(tx.text)
        THEN [proc |-> Awaiting(pr, Raw(key)), log |-> tx.log]
        ELSE [proc |-> next, log |-> parsedLog]

\* The continuation of loadByPrefix when the request it awaits settles, up to
\* its next await: the call and the log after it. pc <<"finish">> says that no
\* request is left. (a || b requests b when a is null or the empty string.)
AfterFetch(pr, log) ==
    LET r == pr.pc
        key == r[1]
        j == fetchJSON(server[r], log)
        tx == fetchText(server[r], log)
        stored == [pr EXCEPT !.text[key] = tx.text]
        next == IF key = "messages" THEN [stored EXCEPT !.pc = <<"finish">>]
                ELSE Awaiting(stored, ExportStatus(NextKey(key)))
    IN  IF r = SummaryJson
        THEN [proc |-> IF Falsy(j.value)
                       THEN Awaiting([pr EXCEPT !.summary = j.value], LoadSummaryJson)
                       ELSE Awaiting([pr EXCEPT !.summary = j.value],
                                     ExportStatus("contacts")),
              log |-> j.log]
        ELSE IF r = LoadSummaryJson
        THEN [proc |-> Awaiting([pr EXCEPT !.summary = j.value],
                                ExportStatus("contacts")),
              log |-> j.log]
        ELSE IF r = ExportStatus(key) /\ FalsyText(tx.text)
        THEN [proc |-> Awaiting(pr, Raw(key)), log |-> tx.log]
        ELSE [proc |-> next, log |-> tx.log]

Payload(summary, contacts, chats, messages) ==
    JObj([summary |-> summary, contacts |-> JArr(contacts),
          chats |-> JArr(chats), messages |-> JArr(messages)])

\* a dataset whose resource was not found keeps the records of the last load
FinishPrefix_keepStale(pr, st, log) ==
    LET contacts == parseNDJSON(pr.text["contacts"], "Contatos (prefixo)", log)
        chats == parseNDJSON(pr.text["chats"], "Conversas (prefixo)", contacts.log)
        messages == parseNDJSON(pr.text["messages"], "Mensagens (prefixo)", chats.log)
        payload == Payload(pr.summary, contacts.out, chats.out, messages.out)
        applied == applyData(st, messages.log, payload, "Prefixo")
        merged == [applied.state EXCEPT
                      !.contacts = IF pr.text["contacts"].has THEN @ ELSE st.contacts,
                      !.chats = IF pr.text["chats"].has THEN @ ELSE st.chats,
                      !.messages = IF pr.text["messages"].has THEN @ ELSE st.messages]
    IN  [payload |-> payload, state |-> merged, threw |-> applied.threw,
         log |-> applied.log]

\* The end of loadByPrefix, from the "nothing found" warning to applyData and
\* the catch: the payload applied, the store, the log, and whether it threw.
\* The payload and the log are values by the time applyData is called.
FinishPrefix(pr, st, log) ==
    LET warned == IF Falsy(pr.summary) /\ \A k \in Keys : FalsyText(pr.text[k])
                  THEN pushLog(log, <<"Nenhum arquivo encontrado">>, "warn", <<>>)
                  ELSE log
        contacts == parseNDJSON(pr.text["contacts"], "Contatos (prefixo)", warned)
        chats == parseNDJSON(pr.text["chats"], "Conversas (prefixo)", contacts.log)
        messages == parseNDJSON(pr.text["messages"], "Mensagens (prefixo)", chats.log)
        Apply(payload, parsedLog) ==
            LET applied == applyData(st, parsedLog, payload, "Prefixo")
            IN  [payload |-> payload, state |-> applied.state, threw |-> applied.threw,
                 log |-> IF applied.threw
                         THEN pushLog(applied.log, <<"Erro ao carregar prefixo">>,
                                      "error", <<>>)
                         ELSE applied.log]
    IN  CHOOSE finished \in
            {Apply(payload, parsedLog) :
                payload \in {Payload(pr.summary, contacts.out, chats.out, messages.out)},
                parsedLog \in {messages.log}} : TRUE


(***************************************************************************)
(* loadFromFiles.  A file input holds no file, a file that cannot be read  *)
(* (FileReader's onerror) or a file with a body: the characters of an      *)
(* NDJSON text, or for the summary what JSON.parse makes of the text.      *)
(***************************************************************************)
NoFile == [status |-> "none", what |-> <<>>]
FileOrder == <<"summary", "contacts", "chats", "messages">>
FileOf(name) == <<name, "file">>

\* the first selected file after position i of FileOrder, or 0
NextSelected(i) ==
    LET later == {j \in (i + 1)..Len(FileOrder) : files[FileOrder[j]].status # "none"}
    IN  IF later = {} THEN 0 ELSE CHOOSE j \in later : \A k \in later : j <= k

Position(name) == CHOOSE i \in 1..Len(FileOrder) : FileOrder[i] = name

FileLabel(key) ==
    CASE key = "contacts" -> "Contatos (arquivo local)"
      [] key = "chats" -> "Conversas (arquivo local)"
      [] key = "messages" -> "Mensagens (arquivo local)"

\* a summary file that cannot be decoded ends the reading: the dataset
\* files after it are not read
AfterRead_stopAtBadSummary(pr, log) ==
    LET name == pr.pc[1]
        file == files[name]
        parsed == parseNDJSON(SomeText(file.what), FileLabel(name), log)
        next == NextSelected(Position(name))
    IN  IF name = "summary"
        THEN IF file.status = "ok" /\ file.what.ok
             THEN [proc |-> IF next = 0
                            THEN [pr EXCEPT !.summary = file.what.value,
                                            !.pc = <<"finish">>]
                            ELSE Awaiting([pr EXCEPT !.summary = file.what.value],
                                          FileOf(FileOrder[next])),
                   log |-> log]
             ELSE [proc |-> [pr EXCEPT !.pc = <<"finish">>],
                   log |-> pushLog(log, <<"Nao foi possivel ler o arquivo de resumo">>,
                                   "error", <<>>)]
        ELSE [proc |-> LET read == IF file.status = "ok"
                                   THEN [pr EXCEPT !.recs[name] = parsed.out] ELSE pr
                       IN  IF next = 0 THEN [read EXCEPT !.pc = <<"finish">>]
                           ELSE Awaiting(read, FileOf(FileOrder[next])),
              log |-> IF file.status = "ok" THEN parsed.log
                      ELSE pushLog(log, <<"Falha ao ler", name, "locais">>,
                                   "error", <<>>)]

\* The continuation of loadFromFiles when the read it awaits settles, up to
\* its next await: the call and the log after it.
AfterRead(pr, log) ==
    LET name == pr.pc[1]
        file == files[name]
        parsed == parseNDJSON(SomeText(file.what), FileLabel(name), log)
        read ==
            IF name = "summary"
            THEN IF file.status = "ok" /\ file.what.ok
                 THEN [proc |-> [pr EXCEPT !.summary = file.what.value], log |-> log]
                 ELSE [proc |-> pr,
                       log |-> pushLog(log, <<"Nao foi possivel ler o arquivo de resumo">>,
                                       "error", <<>>)]
            ELSE IF file.status = "ok"
                 THEN [proc |-> [pr EXCEPT !.recs[name] = parsed.out],
                       log |-> parsed.log]
                 ELSE [proc |-> pr,
                       log |-> pushLog(log, <<"Falha ao ler", name, "locais">>,
                                       "error", <<>>)]
        next == NextSelected(Position(name))
    IN  [proc |-> IF next = 0 THEN [read.proc EXCEPT !.pc = <<"finish">>]
                  ELSE Awaiting(read.proc, FileOf(FileOrder[next])),
         log |-> read.log]

\* The end of loadFromFiles: applyData, outside any try.
FinishFiles(pr, st, log) ==
    LET payload == Payload(pr.summary, pr.recs["contacts"], pr.recs["chats"],
                           pr.recs["messages"])
        applied == applyData(st, log, payload, "Arquivos locais")
    IN  [payload |-> payload, state |-> applied.state, threw |-> applied.threw,
         log |-> applied.log]

(***************************************************************************)
(* runTest.  The response of the function: fetch rejects, or a status and  *)
(* a body that is empty, not JSON, or a JSON document.                     *)
(***************************************************************************)
TestRun == <<"test_run", "POST">>
NetworkError == [reached |-> FALSE, ok |-> FALSE, text |-> "empty", value |-> JUndefined]
Response(ok, text, value) == [reached |-> TRUE, ok |-> ok, text |-> text, value |-> value]

\* JSON.parse(text || '{}')
ParseBody(resp) ==
    IF resp.text = "empty" THEN Doc(JObj(<<>>))
    ELSE IF resp.text = "malformed" THEN Malformed
    ELSE Doc(resp.value)

\* x?.length ?? 0 of a value that is an array or has no length (strings, the
\* one other JSON type with a length, are not among the values fed here)
LengthOr0(j) == IF j.t = "arr" THEN Len(j.v) ELSE 0

NoStatus == [cls |-> "", text |-> <<>>]
Status(cls, text) == [cls |-> cls, text |-> text]

\* the message of the Error thrown for a response that is not ok
FunctionError(payload) ==
    <<IF Falsy(Get(payload, "error")) THEN JStr("Falha na funcao serverless")
      ELSE Get(payload, "error"),
      IF Falsy(Get(payload, "hint")) THEN JStr("") ELSE Get(payload, "hint")>>

TestFailed(st, log, applied, payload, message) ==
    [state |-> st, applied |-> applied, payload |-> payload, outcome |-> "error",
     status |-> Status("error", message),
     log |-> pushLog(log, <<"Erro ao executar teste rapido">>, "error", <<>>)]

\* The continuation of runTest when the response settles, its try, catch and
\* finally: the store, the log, the status shown, whether applyData ran and
\* with which payload, and how the run ended.
AfterTest(resp, st, log) ==
    LET parsed == ParseBody(resp)
        payload == parsed.value
        applied == applyData(st, log, payload, "Teste rapido")
    IN  IF ~resp.reached
        THEN TestFailed(st, log, FALSE, JUndefined, <<JStr("Failed to fetch")>>)
        ELSE IF ~parsed.ok
        THEN TestFailed(st, log, FALSE, JUndefined,
                        <<JStr("Resposta invalida da funcao (JSON malformado).")>>)
        ELSE IF ~resp.ok
        THEN TestFailed(st, log, FALSE, JUndefined,
                        IF payload.t = "null" THEN <<JStr("TypeError")>>
                        ELSE FunctionError(payload))
        ELSE IF applied.threw \/ payload.t = "null"
        \* refreshUI threw inside applyData, or payload.contacts was read of a
        \* null payload for the closing entry: the store is already replaced
        THEN TestFailed(applied.state, applied.log, TRUE, payload, <<JStr("TypeError")>>)
        ELSE [state |-> applied.state, applied |-> TRUE, payload |-> payload,
              outcome |-> "success",
              status |-> Status("success", <<JStr("Teste concluido com sucesso.")>>),
              log |-> pushLog(applied.log, <<"Teste rapido concluido">>, "success",
                              <<LengthOr0(Get(payload, "contacts")),
                                LengthOr0(Get(payload, "chats")),
                                LengthOr0(Get(payload, "messages"))>>)]


(***************************************************************************)
(* The inputs.                                                             *)
(***************************************************************************)
Record1 == JNum(1)
SummaryDoc == JObj([total |-> JNum(1)])

\* a well-formed payload whose non-empty datasets are those of `full`
DataDoc(full) ==
    LET records(k) == JArr(IF k \in full THEN <<Record1>> ELSE <<>>)
        datasets == [contacts |-> records("contacts"), chats |-> records("chats"),
                     messages |-> records("messages")]
    IN  IF "messages" \in full
        THEN JObj([summary |-> SummaryDoc, contacts |-> datasets.contacts,
                   chats |-> datasets.chats, messages |-> datasets.messages])
        ELSE JObj(datasets)

ErrorDoc == JObj([error |-> JStr("auth failed"), hint |-> JStr("rotate token")])
\* contacts is no array, messages is missing
PartialDoc == JObj([contacts |-> JNum(7), chats |-> JArr(<<Record1>>)])
\* a record that is null
NullRecordDoc ==
    JObj([contacts |-> JArr(<<JNull>>), chats |-> JArr(<<>>), messages |-> JArr(<<>>)])

TestResponses ==
    {Response(TRUE, "json", DataDoc(full)) :
        full \in {{}, {"contacts"}, {"chats"}, {"messages"}, {"chats", "messages"}}}
        \cup {Response(TRUE, "json", d) : d \in {JNull, JNum(7), PartialDoc, NullRecordDoc}}
        \cup {Response(TRUE, "empty", JUndefined), Response(TRUE, "malformed", JUndefined)}
        \cup {Response(FALSE, "json", ErrorDoc), Response(FALSE, "json", JNull)}
        \cup {NetworkError}

\* what the prefix field or the prefix query parameter can hold
Prefixes == {<<>>, <<SP>>, <<"a">>}
\* what a dataset button's data-dataset attribute can hold
KeyArgs == Keys \cup {"", "summary", "nope"}

EmptyDir == [r \in Resources |-> Missing]

\* a directory holding contacts.ndjson alone
OnlyRawContacts == [EmptyDir EXCEPT ![Raw("contacts")] = Served(<<"1">>)]

\* a directory after an export: a summary, contacts with a malformed line, an
\* empty chats export status beside raw chats, messages that cannot be fetched
ExportedDir ==
    [EmptyDir EXCEPT ![SummaryJson] = Served(Doc(SummaryDoc)),
                     ![ExportStatus("contacts")] = Served(<<"1", NL, "x">>),
                     ![ExportStatus("chats")] = Served(<<>>),
                     ![Raw("chats")] = Served(<<"1">>),
                     ![ExportStatus("messages")] = Unreachable]

MainServers == {OnlyRawContacts, ExportedDir}

NothingSelected == [f \in {FileOrder[i] : i \in 1..Len(FileOrder)} |-> NoFile]
FourFiles ==
    [summary |-> Served(Malformed), contacts |-> Served(<<"1">>),
     chats |-> Unreachable, messages |-> Served(<<"n", "u", "l", "l">>)]

MainFiles == {NothingSelected, FourFiles}

(***************************************************************************)
(* The initial state: the script has been evaluated, init has not run.     *)
(***************************************************************************)
NoCall == [op |-> "", key |-> ""]
NoOutput == [done |-> FALSE, out |-> <<>>]

Fresh ==
    /\ state = InitialState
    /\ logLines = <<>>
    /\ procs = [p \in Procs |-> Idle]
    /\ button = [disabled |-> FALSE]
    /\ testStatus = NoStatus
    /\ alerts = <<>>
    /\ booted = FALSE
    /\ view = InitialView
    /\ loads2 = [p \in Procs |-> Idle]
    /\ calls = 0
    /\ lastCall = NoCall
    /\ applyCount = 0
    /\ lastPayload = JUndefined
    /\ output = NoOutput

Init ==
    /\ Fresh
    /\ server \in MainServers
    /\ files \in MainFiles
    /\ input = NullText

(***************************************************************************)
(* The handlers and the continuations.                                     *)
(***************************************************************************)
\* loadByPrefix(prefix) up to its first await
loadByPrefix(prefix, log, shown) ==
    IF Trim(prefix) = <<>>
    THEN [proc |-> Idle, log |-> log, alerts |-> Append(shown, "Informe um prefixo")]
    ELSE [proc |-> Awaiting([Idle EXCEPT !.kind = "prefix"], SummaryJson),
          log |-> pushLog(log, <<"Carregando dados a partir do prefixo">>, "info", <<>>),
          alerts |-> shown]

\* init(), with the prefix query parameter qp (null when the URL has none)
OnReady(qp) ==
    LET greeted == pushLog(logLines, <<"Interface carregada">>, "info", <<>>)
        load == loadByPrefix(qp.v,
                             pushLog(greeted, <<"Prefixo detectado pela URL">>, "info", <<>>),
                             alerts)
    IN  /\ ~booted
        /\ booted' = TRUE
        /\ view' = updateDatasetButtons(state, view)
        /\ IF FalsyText(qp)
           THEN /\ logLines' = greeted
                /\ UNCHANGED <<procs, alerts, calls, lastCall>>
           ELSE /\ logLines' = load.log
                /\ alerts' = load.alerts
                /\ procs' = [procs EXCEPT ![calls + 1] = load.proc]
                /\ calls' = calls + 1
                /\ lastCall' = [op |-> "loadByPrefix", key |-> ""]
        /\ UNCHANGED <<state, button, testStatus, server, files, applyCount,
                       lastPayload, input, output>>

\* a new prefix load cancels the calls still in flight
OnLoadPrefix_cancelsEarlier(prefix) ==
    LET load == loadByPrefix(prefix, logLines, alerts)
    IN  /\ booted
        /\ calls < MaxOps
        /\ logLines' = load.log
        /\ alerts' = load.alerts
        /\ procs' = [p \in Procs |->
                        IF p = calls + 1 THEN load.proc
                        ELSE IF InFlight(p) /\ load.proc # Idle
                             THEN Ended(procs[p], "cancelled")
                             ELSE procs[p]]
        /\ calls' = calls + 1
        /\ lastCall' = [op |-> "loadByPrefix", key |-> ""]
        /\ UNCHANGED <<state, button, testStatus, booted, server, files, view,
                       applyCount, lastPayload, input, output>>

\* the listener of #btnLoadPrefix
OnLoadPrefix(prefix) ==
    LET load == loadByPrefix(prefix, logLines, alerts)
    IN  /\ booted
        /\ calls < MaxOps
        /\ logLines' = load.log
        /\ alerts' = load.alerts
        /\ procs' = [procs EXCEPT ![calls + 1] = load.proc]
        /\ calls' = calls + 1
        /\ lastCall' = [op |-> "loadByPrefix", key |-> ""]
        /\ UNCHANGED <<state, button, testStatus, booted, server, files, view,
                       applyCount, lastPayload, input, output>>

\* a request of a prefix load settles
ResolveFetch(p) ==
    /\ InFlight(p)
    /\ procs[p].kind = "prefix"
    /\ \E after \in {AfterFetch(procs[p], logLines)} :
          IF after.proc.pc = <<"finish">>
          THEN \E finish \in {FinishPrefix(after.proc, state, after.log)} :
                  /\ state' = finish.state
                  /\ logLines' = finish.log
                  /\ applyCount' = applyCount + 1
                  /\ lastPayload' = finish.payload
                  /\ view' = refreshUI(finish.state, view)
                  /\ IF finish.threw
                     THEN /\ alerts' = Append(alerts, "Falha ao carregar prefixo")
                          /\ procs' = [procs EXCEPT ![p] =
                                          Applied(after.proc, "caught", applyCount + 1)]
                     ELSE /\ alerts' = alerts
                          /\ procs' = [procs EXCEPT ![p] =
                                          Applied(after.proc, "applied", applyCount + 1)]
          ELSE /\ logLines' = after.log
               /\ procs' = [procs EXCEPT ![p] = after.proc]
               /\ UNCHANGED <<state, applyCount, lastPayload, alerts, view>>
    /\ UNCHANGED <<button, testStatus, booted, server, files, loads2, calls,
                   lastCall, input, output>>

\* the listener of #btnLoadFiles: loadFromFiles up to its first await
OnLoadFiles ==
    LET first == NextSelected(0)
    IN  /\ booted
        /\ calls < MaxOps
        /\ IF first = 0
           THEN /\ alerts' = Append(alerts, "Selecione ao menos um arquivo")
                /\ UNCHANGED <<logLines, procs>>
           ELSE /\ logLines' = pushLog(logLines, <<"Carregando arquivos locais">>,
                                       "info", <<>>)
                /\ procs' = [procs EXCEPT ![calls + 1] =
                                Awaiting([Idle EXCEPT !.kind = "files"],
                                         FileOf(FileOrder[first]))]
                /\ alerts' = alerts
        /\ calls' = calls + 1
        /\ lastCall' = [op |-> "loadFromFiles", key |-> ""]
        /\ UNCHANGED <<state, button, testStatus, booted, server, files,
                       applyCount, lastPayload, input, output>>

\* a file read of a local-file load settles
ResolveRead(p) ==
    LET after == AfterRead(procs[p], logLines)
        finish == FinishFiles(after.proc, state, after.log)
    IN  /\ InFlight(p)
        /\ procs[p].kind = "files"
        /\ IF after.proc.pc = <<"finish">>
           THEN /\ state' = finish.state
                /\ logLines' = finish.log
                /\ applyCount' = applyCount + 1
                /\ lastPayload' = finish.payload
                /\ view' = refreshUI(finish.state, view)
                /\ procs' = [procs EXCEPT ![p] =
                                Applied(after.proc,
                                        IF finish.threw THEN "threw" ELSE "applied",
                                        applyCount + 1)]
           ELSE /\ logLines' = after.log
                /\ procs' = [procs EXCEPT ![p] = after.proc]
                /\ UNCHANGED <<state, applyCount, lastPayload, view>>
        /\ UNCHANGED <<button, testStatus, alerts, booted, server, files, loads2,
                       calls, lastCall, input, output>>

\* the click on #btnTestRun (a disabled button receives no click): runTest up
\* to its await of the response
ClickTestRun ==
    /\ booted
    /\ calls < MaxOps
    /\ ~button.disabled
    /\ button' = [disabled |-> TRUE]
    /\ testStatus' = Status("loading", <<JStr("Executando teste rapido")>>)
    /\ logLines' = pushLog(logLines, <<"Executando teste rapido na funcao serverless">>,
                           "info", <<>>)
    /\ procs' = [procs EXCEPT ![calls + 1] =
                    Awaiting([Idle EXCEPT !.kind = "test"], TestRun)]
    /\ calls' = calls + 1
    /\ lastCall' = [op |-> "runTest", key |-> ""]
    /\ UNCHANGED <<state, alerts, booted, server, files, view, loads2, applyCount,
                   lastPayload, input, output>>

\* the button is enabled again at the end of the try block only: a run that
\* fails leaves it disabled
ResolveTest_enableOnSuccess(p, resp) ==
    LET after == AfterTest(resp, state, logLines)
    IN  /\ InFlight(p)
        /\ procs[p].kind = "test"
        /\ state' = after.state
        /\ logLines' = after.log
        /\ testStatus' = after.status
        /\ button' = [disabled |-> after.outcome # "success"]
        /\ procs' = [procs EXCEPT ![p] =
                        IF after.applied
                        THEN Applied(procs[p], after.outcome, applyCount + 1)
                        ELSE Ended(procs[p], after.outcome)]
        /\ applyCount' = IF after.applied THEN applyCount + 1 ELSE applyCount
        /\ lastPayload' = IF after.applied THEN after.payload ELSE lastPayload
        /\ view' = IF after.applied THEN refreshUI(after.state, view) ELSE view
        /\ UNCHANGED <<alerts, booted, server, files, loads2, calls, lastCall, input,
                       output>>

\* the response of the self-test settles
ResolveTest(p, resp) ==
    LET after == AfterTest(resp, state, logLines)
    IN  /\ InFlight(p)
        /\ procs[p].kind = "test"
        /\ state' = after.state
        /\ logLines' = after.log
        /\ testStatus' = after.status
        /\ button' = [disabled |-> FALSE]
        /\ procs' = [procs EXCEPT ![p] =
                        IF after.applied
                        THEN Applied(procs[p], after.outcome, applyCount + 1)
                        ELSE Ended(procs[p], after.outcome)]
        /\ applyCount' = IF after.applied THEN applyCount + 1 ELSE applyCount
        /\ lastPayload' = IF after.applied THEN after.payload ELSE lastPayload
        /\ view' = IF after.applied THEN refreshUI(after.state, view) ELSE view
        /\ UNCHANGED <<alerts, booted, server, files, loads2, calls, lastCall, input,
                       output>>

\* the click on a dataset button whose data-dataset attribute is `key`
ClickDataset(key) ==
    LET set == setActiveDataset(state, logLines, key)
    IN  /\ booted
        /\ calls < MaxOps
        /\ state' = set.state
        /\ logLines' = set.log
        /\ calls' = calls + 1
        /\ lastCall' = [op |-> "setActiveDataset", key |-> key]
        /\ view' = IF set.state = state /\ set.log = logLines THEN view
                   ELSE updateDataTable(set.state, view)
        /\ UNCHANGED <<procs, button, testStatus, alerts, booted, server, files,
                       loads2, applyCount, lastPayload, input, output>>

\* DOMContentLoaded, the first script alone
Boot(qp) == OnReady(qp) /\ UNCHANGED loads2

\* the click on #btnLoadPrefix, the first script alone
ClickLoadPrefix(prefix) == OnLoadPrefix(prefix) /\ UNCHANGED loads2

\* the click on #btnLoadFiles, the first script alone
ClickLoadFiles == OnLoadFiles /\ UNCHANGED <<view, loads2>>

Next ==
    \/ \E qp \in {NullText} \cup {SomeText(x) : x \in Prefixes} : Boot(qp)
    \/ \E prefix \in Prefixes : ClickLoadPrefix(prefix)
    \/ \E p \in Procs : ResolveFetch(p)
    \/ ClickLoadFiles
    \/ \E p \in Procs : ResolveRead(p)
    \/ ClickTestRun
    \/ \E p \in Procs, resp \in TestResponses : ResolveTest(p, resp)
    \/ \E key \in KeyArgs : ClickDataset(key)

Spec == Init /\ [][Next]_vars


(***************************************************************************)
(* pushLog on its own: any number of calls, each entry numbered by its     *)
(* call.                                                                   *)
(***************************************************************************)
PushLogCall ==
    /\ calls < MaxPushes
    /\ logLines' = pushLog(logLines, <<"entry">>, "info", <<calls + 1>>)
    /\ calls' = calls + 1
    /\ lastCall' = [op |-> "pushLog", key |-> ""]
    /\ UNCHANGED <<state, procs, button, testStatus, alerts, booted, server, files,
                   view, loads2, applyCount, lastPayload, input, output>>

InitLog ==
    /\ Fresh
    /\ server = EmptyDir
    /\ files = NothingSelected
    /\ input = NullText

SpecLog == InitLog /\ [][PushLogCall]_vars

(***************************************************************************)
(* parseNDJSON on its own: any text of at most MaxLen characters, or null. *)
(***************************************************************************)
Alphabet == {"1", "x", "n", "u", "l", SP, CR, NL}
Texts == UNION {[1..n -> Alphabet] : n \in 0..MaxLen}

ParseInput ==
    LET parsed == parseNDJSON(input, "", logLines)
    IN  /\ ~output.done
        /\ output' = [done |-> TRUE, out |-> parsed.out]
        /\ logLines' = parsed.log
        /\ lastCall' = [op |-> "parseNDJSON", key |-> ""]
        /\ UNCHANGED <<state, procs, button, testStatus, alerts, booted, server,
                       files, view, loads2, calls, applyCount, lastPayload, input>>

InitParse ==
    /\ Fresh
    /\ server = EmptyDir
    /\ files = NothingSelected
    /\ input \in {NullText} \cup {SomeText(s) : s \in Texts}

SpecParse == InitParse /\ [][ParseInput]_vars


(***************************************************************************)
(* The views of a store.  The store is any the loads can leave; the views  *)
(* are rendered by refreshUI() and by the clicks on the dataset buttons.   *)
(***************************************************************************)
RenderRecords ==
    {JObj([a |-> JNum(1)]),
     JObj([b |-> JStr("<"), exported_to_chatwoot |-> JBool(TRUE)]),
     JObj([a |-> JArr(<<JStr("&")>>), exported_to_chatwoot |-> JStr("true")]),
     JArr(<<JNum(1)>>),
     JNull}

RecordLists(n) == UNION {[1..m -> RenderRecords] : m \in 0..n}

RenderStores ==
    {[InitialState EXCEPT !.summary = summary, !.contacts = contacts, !.chats = chats,
                          !.messages = messages, !.dataset = dataset] :
        summary \in {JNull, SummaryDoc},
        contacts \in RecordLists(MaxRecords),
        chats \in {<<>>, <<JNull>>,
                   <<JObj([b |-> JStr("<"), exported_to_chatwoot |-> JBool(TRUE)])>>},
        messages \in {<<>>, <<JObj([exported_to_chatwoot |-> JNum(1)])>>},
        dataset \in Keys}

\* refreshUI(), as applyData calls it once the store is replaced
RefreshUICall ==
    /\ calls < MaxOps
    /\ view' = refreshUI(state, view)
    /\ calls' = calls + 1
    /\ lastCall' = [op |-> "refreshUI", key |-> ""]
    /\ UNCHANGED <<state, logLines, procs, button, testStatus, alerts, booted, server,
                   files, loads2, applyCount, lastPayload, input, output>>

InitRender ==
    /\ state \in RenderStores
    /\ logLines = <<>>
    /\ procs = [p \in Procs |-> Idle]
    /\ button = [disabled |-> FALSE]
    /\ testStatus = NoStatus
    /\ alerts = <<>>
    /\ booted = TRUE
    /\ view = InitialView
    /\ loads2 = [p \in Procs |-> Idle]
    /\ calls = 0
    /\ lastCall = NoCall
    /\ applyCount = 0
    /\ lastPayload = JUndefined
    /\ output = NoOutput
    /\ server = EmptyDir
    /\ files = NothingSelected
    /\ input = NullText

NextRender ==
    \/ RefreshUICall
    \/ \E key \in Keys : ClickDataset(key)

SpecRender == InitRender /\ [][NextRender]_vars


(***************************************************************************)
(* One prefix load against any data directory.                             *)
(***************************************************************************)
ExportStatusBodies == {Missing, Unreachable, Served(<<>>), Served(<<"1">>)}
RawBodies == {Missing, Served(<<>>), Served(<<"1">>)}
SummaryBodies ==
    {Missing, Served(Malformed), Served(Doc(JBool(FALSE))), Served(Doc(SummaryDoc))}
LoadSummaryBodies == {Missing, Served(Doc(JObj([loaded |-> JNum(1)])))}

Directory(summary, loadSummary, exportStatus, raw) ==
    [r \in Resources |->
        IF r = SummaryJson THEN summary
        ELSE IF r = LoadSummaryJson THEN loadSummary
        ELSE IF r[2] = ".ndjson" THEN raw[r[1]]
        ELSE exportStatus[r[1]]]

AllServers ==
    {Directory(summary, loadSummary, exportStatus, raw) :
        summary \in SummaryBodies, loadSummary \in LoadSummaryBodies,
        exportStatus \in [Keys -> ExportStatusBodies], raw \in [Keys -> RawBodies]}

InitPrefix ==
    /\ Fresh
    /\ server \in AllServers
    /\ files = NothingSelected
    /\ input = NullText

NextPrefix ==
    \/ \E qp \in {NullText, SomeText(<<"a">>)} : Boot(qp)
    \/ \E prefix \in Prefixes : calls = 0 /\ ClickLoadPrefix(prefix)
    \/ \E p \in Procs : ResolveFetch(p)

SpecPrefix == InitPrefix /\ [][NextPrefix]_vars

\* The fair specification: every request settles (fetch resolves or rejects),
\* so the continuation of a load that awaits one is eventually run.
\* the directories of the fair specification: every resource not found, not
\* reachable or served, a summary.json that does not decode among them (of the
\* raw resources, contacts.ndjson alone is ever not reachable)
FairServers ==
    {Directory(summary, loadSummary, exportStatus, raw) :
        summary \in SummaryBodies, loadSummary \in LoadSummaryBodies,
        exportStatus \in [Keys -> {Missing, Unreachable, Served(<<"1">>)}],
        raw \in {r \in [Keys -> {Missing, Unreachable, Served(<<"1">>)}] :
                    \A k \in Keys \ {"contacts"} : r[k] # Unreachable}}

InitFair ==
    /\ Fresh
    /\ server \in FairServers
    /\ files = NothingSelected
    /\ input = NullText

SpecPrefixFair ==
    InitFair /\ [][NextPrefix]_vars /\ \A p \in Procs : WF_vars(ResolveFetch(p))


(***************************************************************************)
(* The second script of app.js.  It registers its own listeners for        *)
(* DOMContentLoaded and for the two load buttons, keeps no store and no    *)
(* log, and renders what it loads straight into the cards the first script *)
(* renders too.                                                            *)
(***************************************************************************)
\* fetchJSON(url) of the second script: no warning is logged
fetchJSON2(res) ==
    IF res.status = "ok" /\ res.what.ok THEN res.what.value ELSE JNull

\* fetchText(url) of the second script
fetchText2(res) ==
    IF res.status = "ok" THEN SomeText(res.what) ELSE NullText

\* parseNDJSON(text) of the second script: the lines that decode, nothing
\* logged
parseNDJSON2(text) ==
    IF FalsyText(text) THEN <<>>
    ELSE ParseLines(SplitLines(text.v), 1, <<>>, <<>>, "").out

\* The continuation of the second script's loadByPrefix when the request it
\* awaits settles, up to its next await.
AfterFetch2(pr) ==
    LET r == pr.pc
        key == r[1]
        value == fetchJSON2(server[r])
        text == fetchText2(server[r])
        stored == [pr EXCEPT !.text[key] = text]
    IN  IF r = SummaryJson
        THEN Awaiting([pr EXCEPT !.summary = value],
                      IF Falsy(value) THEN LoadSummaryJson ELSE ExportStatus("contacts"))
        ELSE IF r = LoadSummaryJson
        THEN Awaiting([pr EXCEPT !.summary = value], ExportStatus("contacts"))
        ELSE IF r = ExportStatus(key) /\ FalsyText(text)
        THEN Awaiting(pr, Raw(key))
        ELSE IF key = "messages" THEN [stored EXCEPT !.pc = <<"finish">>]
        ELSE Awaiting(stored, ExportStatus(NextKey(key)))

NoSummary == JObj([info |-> JStr("Sem summary.json")])

\* renderSummary(summary, contacts, chats, messages): the summary as markup,
\* the metrics, and the three cards shown; it throws, the summary set, where a
\* record is null.
renderSummary(v, summary, contacts, chats, messages) ==
    LET summarised ==
            [v EXCEPT !.summary =
                <<Markup(<<"<pre>">>),
                  Html(JSONstringify(IF Falsy(summary) THEN NoSummary ELSE summary)),
                  Markup(<<"</pre>">>)>>]
        threw == \E records \in {contacts, chats, messages} :
                    \E i \in 1..Len(records) : records[i].t = "null"
    IN  [threw |-> threw,
         view |-> IF threw THEN summarised
                  ELSE [summarised EXCEPT
                           !.metrics = <<<<Len(contacts), Exported(contacts)>>,
                                         <<Len(chats), Exported(chats)>>,
                                         <<Len(messages), Exported(messages)>>>>,
                           !.hidden.summaryCard = FALSE,
                           !.hidden.statsCard = FALSE,
                           !.hidden.samplesCard = FALSE]]

\* The continuation of the second script's loadFromFiles when the read it
\* awaits settles: a summary that cannot be read or decoded is null, a dataset
\* file that cannot be read rejects the call.
AfterRead2(pr) ==
    LET name == pr.pc[1]
        file == files[name]
        next == NextSelected(Position(name))
        read == IF name = "summary"
                THEN IF file.status = "ok" /\ file.what.ok
                     THEN [pr EXCEPT !.summary = file.what.value]
                     ELSE pr
                ELSE [pr EXCEPT !.recs[name] = parseNDJSON2(SomeText(file.what))]
    IN  IF name # "summary" /\ file.status # "ok"
        THEN Ended(pr, "rejected")
        ELSE IF next = 0 THEN [read EXCEPT !.pc = <<"finish">>]
        ELSE Awaiting(read, FileOf(FileOrder[next]))

\* init() of the second script: a prefix in the URL is loaded as it is
OnReady2(qp) ==
    IF FalsyText(qp) THEN UNCHANGED loads2
    ELSE loads2' = [loads2 EXCEPT ![calls + 1] =
                       Awaiting([Idle EXCEPT !.kind = "prefix2"], SummaryJson)]

\* the second script's listener of #btnLoadPrefix: a blank prefix is refused
\* with an alert
OnLoadPrefix2(prefix) ==
    loads2' = [loads2 EXCEPT ![calls + 1] =
                  IF Trim(prefix) = <<>>
                  THEN Ended([Idle EXCEPT !.kind = "prefix2"], "alerted")
                  ELSE Awaiting([Idle EXCEPT !.kind = "prefix2"], SummaryJson)]

\* the second script's listener of #btnLoadFiles: loadFromFiles up to its first
\* await, or, no file being selected, to its end
OnLoadFiles2 ==
    LET first == NextSelected(0)
        started == [Idle EXCEPT !.kind = "files2"]
        rendered == renderSummary(view, JNull, <<>>, <<>>, <<>>)
    IN  IF first = 0
        THEN /\ view' = rendered.view
             /\ loads2' = [loads2 EXCEPT ![calls + 1] = Ended(started, "rendered")]
        ELSE /\ view' = view
             /\ loads2' = [loads2 EXCEPT ![calls + 1] =
                              Awaiting(started, FileOf(FileOrder[first]))]

Loading2(q) == loads2[q].kind # "none" /\ loads2[q].pc # <<"done">>

\* a request of the second script's prefix load settles
ResolveFetch2(q) ==
    /\ Loading2(q)
    /\ loads2[q].kind = "prefix2"
    /\ \E after \in {AfterFetch2(loads2[q])} :
          IF after.pc = <<"finish">>
          THEN \E rendered \in {renderSummary(view, after.summary,
                                              parseNDJSON2(after.text["contacts"]),
                                              parseNDJSON2(after.text["chats"]),
                                              parseNDJSON2(after.text["messages"]))} :
                  /\ view' = rendered.view
                  /\ loads2' = [loads2 EXCEPT ![q] =
                                   Ended(after, IF rendered.threw THEN "rejected"
                                                ELSE "rendered")]
          ELSE /\ loads2' = [loads2 EXCEPT ![q] = after]
               /\ view' = view
    /\ UNCHANGED <<state, logLines, procs, button, testStatus, alerts, booted, server,
                   files, calls, lastCall, applyCount, lastPayload, input, output>>

\* a file read of the second script's local-file load settles
ResolveRead2(q) ==
    /\ Loading2(q)
    /\ loads2[q].kind = "files2"
    /\ \E after \in {AfterRead2(loads2[q])} :
          IF after.pc = <<"finish">>
          THEN \E rendered \in {renderSummary(view, after.summary, after.recs["contacts"],
                                              after.recs["chats"], after.recs["messages"])} :
                  /\ view' = rendered.view
                  /\ loads2' = [loads2 EXCEPT ![q] =
                                   Ended(after, IF rendered.threw THEN "rejected"
                                                ELSE "rendered")]
          ELSE /\ loads2' = [loads2 EXCEPT ![q] = after]
               /\ view' = view
    /\ UNCHANGED <<state, logLines, procs, button, testStatus, alerts, booted, server,
                   files, calls, lastCall, applyCount, lastPayload, input, output>>

(***************************************************************************)
(* The page: both scripts listen, the first script's listener runs first.  *)
(* One load is triggered, by the URL or by a click.                        *)
(***************************************************************************)
PageReady(qp) == OnReady(qp) /\ OnReady2(qp)
PageLoadPrefix(prefix) == calls = 0 /\ OnLoadPrefix(prefix) /\ OnLoadPrefix2(prefix)
PageLoadFiles == calls = 0 /\ OnLoadFiles /\ OnLoadFiles2

\* a directory whose summary holds markup, and one whose contacts hold a null
MarkupDir ==
    [EmptyDir EXCEPT ![SummaryJson] = Served(Doc(JObj([a |-> JStr("<")]))),
                     ![ExportStatus("contacts")] = Served(<<"1">>)]
NullDir == [EmptyDir EXCEPT ![Raw("contacts")] = Served(<<"n", "u", "l", "l">>)]

PageServers == {EmptyDir, OnlyRawContacts, MarkupDir, NullDir}

InitPage ==
    /\ Fresh
    /\ server \in PageServers
    /\ files \in MainFiles
    /\ input = NullText

NextPage ==
    \/ \E qp \in {NullText} \cup {SomeText(x) : x \in Prefixes} : PageReady(qp)
    \/ \E prefix \in Prefixes : PageLoadPrefix(prefix)
    \/ PageLoadFiles
    \/ \E p \in Procs : ResolveFetch(p)
    \/ \E q \in Procs : ResolveFetch2(q)
    \/ \E p \in Procs : ResolveRead(p)
    \/ \E q \in Procs : ResolveRead2(q)

SpecPage == InitPage /\ [][NextPage]_vars


(***************************************************************************)
(* One local-file load of any selection of files, alone or with the prefix *)
(* load of the URL before it or around it.                                 *)
(***************************************************************************)
SummaryFiles == {NoFile, Unreachable, Served(Malformed), Served(Doc(SummaryDoc))}
DatasetFiles == {NoFile, Unreachable, Served(<<"1">>), Served(<<"x">>)}

AllFiles ==
    {[summary |-> summary, contacts |-> contacts, chats |-> chats,
      messages |-> messages] :
        summary \in SummaryFiles, contacts \in DatasetFiles, chats \in DatasetFiles,
        messages \in DatasetFiles}

InitFiles ==
    /\ Fresh
    /\ server = MarkupDir
    /\ files \in AllFiles
    /\ input = NullText

NextFiles ==
    \/ \E qp \in {NullText, SomeText(<<"a">>)} : Boot(qp)
    \/ (\A p \in Procs : procs[p].kind # "files") /\ ClickLoadFiles
    \/ \E p \in Procs : ResolveFetch(p)
    \/ \E p \in Procs : ResolveRead(p)

SpecFiles == InitFiles /\ [][NextFiles]_vars


(***************************************************************************)
(* The claims.                                                             *)
(***************************************************************************)
\* what a payload holds for the store: its summary unless null or missing,
\* and for each dataset its array, or nothing where it holds no array
SummaryIn(p) ==
    IF p.t = "obj" /\ "summary" \in DOMAIN p.v /\ p.v["summary"].t # "null"
    THEN p.v["summary"] ELSE JNull

RecordsIn(p, key) ==
    IF p.t = "obj" /\ key \in DOMAIN p.v /\ p.v[key].t = "arr"
    THEN p.v[key].v ELSE <<>>

\* C1: in every reachable state, whatever loads and self-tests have run or
\* are still in flight, the summary and the three datasets of the store are
\* those of one payload, the payload of the last applyData (the initial
\* values before any applyData).
C1_StoreFromOnePayload ==
    IF applyCount = 0
    THEN /\ state.summary = InitialState.summary
         /\ \A k \in Keys : state[k] = <<>>
    ELSE /\ state.summary = SummaryIn(lastPayload)
         /\ \A k \in Keys : state[k] = RecordsIn(lastPayload, k)

\* a later call has applied its payload while the first prefix load, already
\* past its first request, is still in flight
C1_Witness ==
    /\ procs[1].kind = "prefix"
    /\ InFlight(1)
    /\ Len(procs[1].reqs) >= 2
    /\ procs[2].result = "applied"
    /\ applyCount = 1
    /\ Len(state.contacts) > 0

\* the first key, in the order contacts, chats, messages, with records
FirstWithRecords(st) ==
    IF Len(st.contacts) > 0 THEN "contacts"
    ELSE IF Len(st.chats) > 0 THEN "chats"
    ELSE IF Len(st.messages) > 0 THEN "messages"
    ELSE "contacts"

\* C2: every step that runs applyData leaves as active key the key active
\* before if its new sequence has records, else the first key with records in
\* the order contacts, chats, messages, else contacts.
C2_ActiveKeyAfterApply ==
    [][applyCount' = applyCount + 1 =>
          state'.dataset = IF Len(state'[state.dataset]) > 0 THEN state.dataset
                           ELSE FirstWithRecords(state')]_vars

\* two payloads applied and no dataset switch: messages stayed active although
\* chats, which comes first, has records too
C2_Witness ==
    /\ applyCount = 2
    /\ calls = 2
    /\ lastCall.op # "setActiveDataset"
    /\ state.dataset = "messages"
    /\ Len(state.chats) > 0
    /\ Len(state.messages) > 0

\* C3: in every reachable state the active key is contacts, chats or messages.
C3_ActiveKeyKnown == state.dataset \in Keys

\* a payload has been applied and the last call was setActiveDataset with a
\* key that is none of the three
C3_Witness ==
    /\ applyCount >= 1
    /\ lastCall.op = "setActiveDataset"
    /\ lastCall.key \notin Keys

\* C4: a setActiveDataset step with a key that is none of the three changes
\* neither the store nor the log; with one of the three it sets the active
\* key to it and leaves summary and datasets as they were.
C4_SetActiveFrame ==
    [][(calls' = calls + 1 /\ lastCall'.op = "setActiveDataset") =>
          IF lastCall'.key \in Keys
          THEN state' = [state EXCEPT !.dataset = lastCall'.key]
          ELSE state' = state /\ logLines' = logLines]_vars

\* the last call made chats active while chats has no record and another
\* dataset has
C4_Witness ==
    /\ lastCall.op = "setActiveDataset"
    /\ lastCall.key = "chats"
    /\ state.dataset = "chats"
    /\ Len(state.chats) = 0
    /\ Len(state.contacts) > 0

\* C5: every step that runs applyData leaves in the store the summary of its
\* payload (null where the payload has none) and, for each dataset, the
\* payload's array (empty where the payload holds no array): nothing of the
\* store's earlier summary and datasets survives.
C5_ApplyReplaces ==
    [][applyCount' = applyCount + 1 =>
          /\ state'.summary = SummaryIn(lastPayload')
          /\ \A k \in Keys : state'[k] = RecordsIn(lastPayload', k)]_vars

\* a prefix load filled the store, then a self-test applied a payload whose
\* contacts is no array and whose messages is missing
C5_Witness ==
    /\ applyCount = 2
    /\ procs[1].kind = "prefix"
    /\ procs[1].result = "applied"
    /\ procs[2].kind = "test"
    /\ lastPayload = PartialDoc
    /\ state.contacts = <<>>
    /\ state.summary = JNull

\* C6: a step on which a self-test run ends in failure (error status shown,
\* error logged) leaves the store as it was.
C6_FailedTestKeepsStore ==
    [][\A p \in Procs :
          (procs[p].kind = "test" /\ InFlight(p) /\ procs'[p].result = "error")
              => state' = state]_vars

\* C7: after any number of pushLog calls the buffer holds the last 400
\* entries pushed (all of them while fewer were pushed), oldest first.
C7_LogKeepsLast400 ==
    /\ Len(logLines) = IF calls < 400 THEN calls ELSE 400
    /\ \A i \in 1..Len(logLines) :
          logLines[i].details = <<calls - Len(logLines) + i>>

\* after the 401st insertion the 2nd entry is the oldest
C7_Witness ==
    /\ calls = 401
    /\ Len(logLines) = 400
    /\ logLines[1].details = <<2>>
    /\ logLines[400].details = <<401>>

\* the positions of a text that open a non-blank line: a character that is
\* no white space, with a line break between it and any earlier such one
NonBlankLineStarts(s) ==
    {i \in 1..Len(s) :
        /\ s[i] \notin Whitespace
        /\ \A j \in 1..(i - 1) :
              s[j] \notin Whitespace => \E k \in (j + 1)..(i - 1) : s[k] = NL}

ErrorEntries == {i \in 1..Len(logLines) : logLines[i].level = "error"}

\* C8: for every text, once parseNDJSON has returned, the length of its
\* output plus the number of error entries it logged is the number of
\* non-blank lines, it logged nothing else, and a null or empty text gave an
\* empty output and no log entry.
C8_OutputPlusErrors ==
    output.done =>
        /\ Len(output.out) + Cardinality(ErrorEntries)
              = Cardinality(NonBlankLineStarts(input.v))
        /\ Len(logLines) = Cardinality(ErrorEntries)
        /\ FalsyText(input) => output.out = <<>> /\ logLines = <<>>

\* a text with a malformed line, a blank line and a line that decodes
C8_Witness ==
    /\ output.done
    /\ input = SomeText(<<"x", NL, NL, "1">>)
    /\ Len(output.out) = 1
    /\ Len(logLines) = 1

\* line n of a text (1-based), the lines being what line breaks separate
LineBreaks(s) == {i \in 1..Len(s) : s[i] = NL}
LineCount(s) == Cardinality(LineBreaks(s)) + 1
LineAt(s, n) ==
    LET inLine == {i \in 1..Len(s) :
                      s[i] # NL /\ Cardinality({j \in LineBreaks(s) : j < i}) = n - 1}
        first == IF inLine = {} THEN 0
                 ELSE CHOOSE i \in inLine : \A j \in inLine : i <= j
    IN  [k \in 1..Cardinality(inLine) |-> s[first + k - 1]]

\* the members of a set of numbers in increasing order
Ascending(S) ==
    [k \in 1..Cardinality(S) |->
        CHOOSE n \in S : Cardinality({m \in S : m < n}) = k - 1]

\* C9: the output of parseNDJSON is the decoded values of the non-blank
\* lines that decode, in their order, and the log holds one error entry per
\* non-blank line that does not decode, in their order, each with the 1-based
\* position of its line among all lines.
C9_DecodedInOrder ==
    output.done =>
        LET s == input.v
            nonBlank == {n \in 1..LineCount(s) : Trim(LineAt(s, n)) # <<>>}
            good == Ascending({n \in nonBlank : JSONparse(Trim(LineAt(s, n))).ok})
            bad == Ascending({n \in nonBlank : ~JSONparse(Trim(LineAt(s, n))).ok})
        IN  /\ Len(output.out) = Len(good)
            /\ \A k \in 1..Len(good) :
                  output.out[k] = JSONparse(Trim(LineAt(s, good[k]))).value
            /\ Len(logLines) = Len(bad)
            /\ \A k \in 1..Len(bad) :
                  /\ logLines[k].level = "error"
                  /\ logLines[k].details = <<bad[k]>>

\* a blank first line, a malformed second line, and a third line decoded
\* after it
C9_Witness ==
    /\ output.done
    /\ input = SomeText(<<NL, "x", NL, "1">>)
    /\ output.out = <<JNum(1)>>
    /\ Len(logLines) = 1
    /\ logLines[1].details = <<2>>

\* the requests a call issued before its request number n
Earlier(pr, n) == {pr.reqs[i] : i \in 1..(n - 1)}

\* C10: in a prefix load the export-status resource of a dataset is requested
\* before its raw resource, the raw resource is requested only if the
\* export-status resource is absent (not found or not reachable), and the
\* dataset applied is the parse of the text obtained, empty if there is none.
C10_RawOnlyIfExportStatusAbsent ==
    \A p \in Procs : procs[p].kind = "prefix" =>
        /\ \A n \in 1..Len(procs[p].reqs) : \A k \in Keys :
              procs[p].reqs[n] = Raw(k) =>
                  /\ ExportStatus(k) \in Earlier(procs[p], n)
                  /\ server[ExportStatus(k)].status # "ok"
        /\ procs[p].result = "applied" => \A k \in Keys :
              state[k] = parseNDJSON(
                            IF server[ExportStatus(k)].status = "ok"
                            THEN SomeText(server[ExportStatus(k)].what)
                            ELSE IF server[Raw(k)].status = "ok"
                                 THEN SomeText(server[Raw(k)].what)
                                 ELSE NullText,
                            "", <<>>).out


\* what a JSON resource holds: the value its body decodes to, null when the
\* resource is not found, not reachable or not decodable
JsonOf(res) ==
    IF res.status = "ok" /\ res.what.ok THEN res.what.value ELSE JNull

\* C11: in a prefix load load_summary.json is requested after summary.json and
\* only if summary.json gave no value (not found, fetch error), and the summary
\* applied is the value of summary.json when it has one, false, 0 and the
\* empty string included, else the value of load_summary.json, else null.
C11_SummaryFirstNonNull ==
    \A p \in Procs : procs[p].kind = "prefix" =>
        /\ \A n \in 1..Len(procs[p].reqs) :
              procs[p].reqs[n] = LoadSummaryJson =>
                  /\ SummaryJson \in Earlier(procs[p], n)
                  /\ JsonOf(server[SummaryJson]) = JNull
        /\ procs[p].result = "applied" =>
              state.summary = IF JsonOf(server[SummaryJson]) # JNull
                              THEN JsonOf(server[SummaryJson])
                              ELSE JsonOf(server[LoadSummaryJson])


\* the requests of a call that have settled
Settled(pr) ==
    {pr.reqs[i] : i \in 1..Len(pr.reqs)} \ {pr.pc}

\* the requests that failed in transport: fetch rejected, or the body of a
\* JSON resource did not decode
TransportFailures(pr) ==
    {r \in Settled(pr) :
        \/ server[r].status = "unreachable"
        \/ r[2] = ".json" /\ server[r].status = "ok" /\ ~server[r].what.ok}

Warnings == {i \in 1..Len(logLines) : logLines[i].level = "warn"
                                        /\ logLines[i].message[1] # "Nenhum arquivo encontrado"}

\* C12: every prefix load started with a non-blank prefix eventually has
\* called applyData, and never more than once, whatever its requests meet
\* (served, not found, not reachable, not decodable); it logs one warning per
\* request that failed in transport and no request ends it.
C12_PrefixLoadApplies ==
    /\ [](\A p \in Procs : procs[p].kind = "prefix" =>
             /\ procs[p].result \in {"", "applied"}
             /\ applyCount = (IF procs[p].result = "applied" THEN 1 ELSE 0)
             /\ Cardinality(Warnings) = Cardinality(TransportFailures(procs[p])))
    /\ \A p \in Procs :
          (procs[p].kind = "prefix") ~> (procs[p].result = "applied")

\* a load has applied its payload after a summary that did not decode, two
\* export statuses and a raw resource that could not be reached; messages came
\* from the raw resource
C12_Witness ==
    /\ procs[1].kind = "prefix"
    /\ procs[1].result = "applied"
    /\ applyCount = 1
    /\ server[SummaryJson] = Served(Malformed)
    /\ server[ExportStatus("contacts")].status = "unreachable"
    /\ server[Raw("contacts")].status = "unreachable"
    /\ server[ExportStatus("chats")].status = "ok"
    /\ server[ExportStatus("messages")].status = "unreachable"
    /\ server[Raw("messages")].status = "ok"
    /\ Cardinality(Warnings) = 4
    /\ Len(state.messages) = 1


\* the "nothing found" entries of the log
NothingFound ==
    {i \in 1..Len(logLines) : logLines[i].message = <<"Nenhum arquivo encontrado">>}

\* none of the four resources was found: neither summary resource gives a
\* value, and for no dataset is its export-status or its raw resource served
AllAbsent ==
    /\ JsonOf(server[SummaryJson]) = JNull
    /\ JsonOf(server[LoadSummaryJson]) = JNull
    /\ \A k \in Keys : server[ExportStatus(k)].status # "ok"
                         /\ server[Raw(k)].status # "ok"

\* C13: a prefix load that has applied its payload has logged the "nothing
\* found" warning once if none of the four resources was found, the store
\* being all empty then, and not at all if at least one was found, records or
\* no records in it.
C13_NothingFoundOnlyIfAllAbsent ==
    \A p \in Procs : (procs[p].kind = "prefix" /\ procs[p].result = "applied") =>
        IF AllAbsent
        THEN /\ Cardinality(NothingFound) = 1
             /\ state.summary = JNull
             /\ \A k \in Keys : state[k] = <<>>
        ELSE Cardinality(NothingFound) = 0


\* the call just made was refused: neither script has issued a request or
\* read a file for it, applyData has not run, and the store is as it was
Refused ==
    /\ procs'[calls'].reqs = <<>>
    /\ loads2'[calls'].reqs = <<>>
    /\ applyCount' = applyCount
    /\ state' = state

\* C14: a load with a user-input error does no I/O and changes nothing: a
\* click on the prefix button with a blank prefix, a page opened with a
\* white-space prefix in its URL, and a click on the files button with no file
\* selected issue no request and read no file, applyData does not run, and
\* the store and the views stay as they were (at start-up, the views but for
\* the dataset buttons init draws).
C14_InputErrorNoIO ==
    [][/\ \A prefix \in Prefixes :
             (Trim(prefix) = <<>> /\ PageLoadPrefix(prefix)) => (Refused /\ view' = view)
       /\ \A prefix \in Prefixes :
             (prefix # <<>> /\ Trim(prefix) = <<>> /\ PageReady(SomeText(prefix)))
                 => (Refused /\ [view' EXCEPT !.buttons = view.buttons] = view)
       /\ (NextSelected(0) = 0 /\ PageLoadFiles) => (Refused /\ view' = view)]_vars


\* what a directory and a selection of files hold for a load: the records of
\* a dataset
ServedRecords(k) ==
    parseNDJSON(IF server[ExportStatus(k)].status = "ok"
                   /\ server[ExportStatus(k)].what # <<>>
                THEN SomeText(server[ExportStatus(k)].what)
                ELSE IF server[Raw(k)].status = "ok" THEN SomeText(server[Raw(k)].what)
                     ELSE NullText,
                "", <<>>).out

SelectedRecords(k) ==
    IF files[k].status = "ok" THEN parseNDJSON(SomeText(files[k].what), "", <<>>).out
    ELSE <<>>

LoadedRecords(pr, k) ==
    IF pr.kind = "prefix" THEN ServedRecords(k) ELSE SelectedRecords(k)

IsLoad(pr) == pr.kind \in {"prefix", "files"}
Done(pr) == pr.pc = <<"done">>

C16_LoadEndsInSuccess ==
    /\ \A p \in Procs :
          (IsLoad(procs[p]) /\ Done(procs[p])) => procs[p].result = "applied"
    /\ \A i \in 1..Len(alerts) : alerts[i] # "Falha ao carregar prefixo"


\* the segments inserted as markup that were made from data hold none of the
\* characters escapeHtml replaces (the placeholder of the second script is no
\* loaded data)
Escaped(segments) ==
    \A i \in 1..Len(segments) :
        (segments[i].kind = "html" /\ segments[i].s # JSONstringify(NoSummary))
            => \A n \in 1..Len(segments[i].s) : segments[i].s[n] \notin Special

\* C17: whatever the page shows after a load, the text made from loaded data
\* (summary, column names, field values) that was inserted as markup has its
\* &, <, > and quote characters escaped.
C17_LoadedTextEscaped ==
    /\ Escaped(view.summary)
    /\ \A c \in 1..Len(view.head) : Escaped(view.head[c])
    /\ \A r \in 1..Len(view.body) :
          \A c \in 1..Len(view.body[r]) : Escaped(view.body[r][c])


\* the records of a list whose exported_to_chatwoot field is the boolean true
ExactlyTrue(records) ==
    {n \in 1..Len(records) :
        /\ records[n].t = "obj"
        /\ "exported_to_chatwoot" \in DOMAIN records[n].v
        /\ records[n].v["exported_to_chatwoot"] = [t |-> "bool", v |-> TRUE]}

\* C18: once the views of a store are refreshed, the metrics view has, for
\* every dataset of a store with records, the number of its records and the
\* number of those whose exported_to_chatwoot field is the boolean true, and
\* nothing else counts.
C18_MetricsCountExactTrue ==
    (lastCall.op = "refreshUI" /\ HasRecords(state))
        => /\ ~view.hidden.statsCard
           /\ Len(view.metrics) = Len(DATASETS)
           /\ \A i \in 1..Len(DATASETS) :
                 view.metrics[i] = <<Len(state[DATASETS[i]]),
                                     Cardinality(ExactlyTrue(state[DATASETS[i]]))>>

\* the metrics are as claimed for the stores without a null record
C18_HoldsWithoutNull ==
    (lastCall.op = "refreshUI" /\ HasRecords(state) /\ ~RefreshThrows(state))
        => /\ ~view.hidden.statsCard
           /\ Len(view.metrics) = Len(DATASETS)
           /\ \A i \in 1..Len(DATASETS) :
                 view.metrics[i] = <<Len(state[DATASETS[i]]),
                                     Cardinality(ExactlyTrue(state[DATASETS[i]]))>>


\* the keys of the records of a list that are objects and no arrays
PlainKeys(records) ==
    {k \in {KeyOrder[i] : i \in 1..Len(KeyOrder)} :
        \E n \in 1..Len(records) : records[n].t = "obj" /\ k \in DOMAIN records[n].v}

\* the place of a key in the sorted order of the keys
Rank(k) == CHOOSE i \in 1..Len(KeyOrder) : KeyOrder[i] = k

\* the header cell of a column
HeaderOf(k) ==
    <<[kind |-> "markup", s |-> <<"<th>">>],
      [kind |-> "html", s |-> <<IF k \in Special THEN Entity(k) ELSE k>>],
      [kind |-> "markup", s |-> <<"</th>">>]>>

\* C19: a table that is shown has one header cell for each key of the
\* plain-object records of the active dataset and for nothing else, in sorted
\* order, one row for each record and one cell in each row for each column;
\* rendering the table of the same store again changes nothing.
C19_TableColumnsRows ==
    ~view.hidden.dataTable =>
        LET records == state[state.dataset]
            keys == PlainKeys(records)
        IN  /\ Len(view.head) = Cardinality(keys)
            /\ \A k \in keys : \E c \in 1..Len(view.head) : view.head[c] = HeaderOf(k)
            /\ \A c, d \in 1..Len(view.head) :
                  \A k, l \in keys :
                      (c < d /\ view.head[c] = HeaderOf(k) /\ view.head[d] = HeaderOf(l))
                          => Rank(k) < Rank(l)
            /\ Len(view.body) = Len(records)
            /\ \A r \in 1..Len(view.body) : Len(view.body[r]) = Len(view.head)
            /\ updateDataTable(state, view) = view

\* a table of two columns and two rows is shown after a second rendering:
\* both records are plain objects, and neither has the keys of the other
C19_Witness ==
    /\ calls = 2
    /\ lastCall.op = "refreshUI"
    /\ ~view.hidden.dataTable
    /\ Len(view.head) = 2
    /\ Len(view.body) = 2
    /\ state[state.dataset][1].t = "obj"
    /\ state[state.dataset][2].t = "obj"
    /\ DOMAIN state[state.dataset][1].v # DOMAIN state[state.dataset][2].v


\* every load started on the page has returned, in both scripts, and one of
\* them has replaced the store
LoadsCompleted ==
    /\ \A p \in Procs : ~InFlight(p) /\ ~Loading2(p)
    /\ \E p \in Procs : IsLoad(procs[p]) /\ procs[p].result = "applied"

\* C20: once the loads triggered on the page have completed, every listener
\* of the trigger having finished, the summary, metrics and samples cards are
\* hidden if the store has no summary and no dataset has a record.
C20_EmptyStoreHidesCards ==
    (LoadsCompleted /\ Falsy(state.summary) /\ ~HasRecords(state))
        => /\ view.hidden.summaryCard
           /\ view.hidden.statsCard
           /\ view.hidden.samplesCard


\* the dataset buttons show the store: the count of each dataset, the active
\* key and the empty datasets
ButtonsAgree ==
    \A k \in Keys :
        /\ view.buttons[k].count = Len(state[k])
        /\ view.buttons[k].active = (state.dataset = k)
        /\ view.buttons[k].empty = (Len(state[k]) = 0)

\* C21: once applyData has been called, or setActiveDataset has been called
\* with a key of DATASETS, the dataset buttons agree with the store: the
\* button of the active key alone is marked active, each shows the count of
\* its dataset and is marked empty exactly when the dataset has no records,
\* also when the three datasets are empty.
C21_ButtonsAgreeWithStore ==
    (applyCount > 0 \/ (lastCall.op = "setActiveDataset" /\ lastCall.key \in Keys))
        => ButtonsAgree


\* the files a local-file load reads: the selected ones, in the order of the
\* inputs
SelectedFiles ==
    SelectSeq([i \in 1..Len(FileOrder) |-> <<FileOrder[i], "file">>],
              LAMBDA f : files[f[1]].status # "none")

SummaryUndecodable == files["summary"].status = "ok" /\ ~files["summary"].what.ok

\* C22: a local-file load whose summary file does not decode, once it has
\* returned, has logged the error of the summary, has read every selected
\* file, and has called applyData; while its payload is the last applied the
\* store has no summary and holds for each dataset the records parsed from
\* its file, none for a dataset whose file was not selected.
C22_BadSummaryFileLoad ==
    \A p \in Procs :
        (procs[p].kind = "files" /\ Done(procs[p]) /\ SummaryUndecodable)
            => /\ \E i \in 1..Len(logLines) :
                     /\ logLines[i].level = "error"
                     /\ logLines[i].message = <<"Nao foi possivel ler o arquivo de resumo">>
               /\ procs[p].reqs = SelectedFiles
               /\ procs[p].nth > 0
               /\ procs[p].nth = applyCount
                     => /\ state.summary = [t |-> "null", v |-> 0]
                        /\ \A k \in Keys :
                              state[k] = IF files[k].status = "none" THEN <<>>
                                         ELSE SelectedRecords(k)

\* the prefix load of the URL has put a summary and a contact into the store;
\* the file load after it, with a summary file that does not decode, a chats
\* file with a record and no contacts file, has left no summary, no contact
\* and the chat
C22_Witness ==
    /\ procs[1].kind = "prefix"
    /\ procs[1].nth = 1
    /\ procs[2].kind = "files"
    /\ procs[2].nth = 2
    /\ SummaryUndecodable
    /\ files["contacts"].status = "none"
    /\ files["chats"] = [status |-> "ok", what |-> <<"1">>]
    /\ state.summary = [t |-> "null", v |-> 0]
    /\ state.contacts = <<>>
    /\ Len(state.chats) = 1


\* the resources of a directory in the order a prefix load asks for them
RequestOrder ==
    <<<<"summary", ".json">>, <<"load_summary", ".json">>,
      <<"contacts", "_export_status.ndjson">>, <<"contacts", ".ndjson">>,
      <<"chats", "_export_status.ndjson">>, <<"chats", ".ndjson">>,
      <<"messages", "_export_status.ndjson">>, <<"messages", ".ndjson">>>>

Place(r) == CHOOSE i \in 1..Len(RequestOrder) : RequestOrder[i] = r

\* the requests a prefix load has issued follow the order, a fallback right
\* after its primary
InOrder(reqs) ==
    /\ Len(reqs) >= 1
    /\ reqs[1] = RequestOrder[1]
    /\ \A i, j \in 1..Len(reqs) : i < j => Place(reqs[i]) < Place(reqs[j])
    /\ \A i \in 1..Len(reqs) :
          Place(reqs[i]) % 2 = 0 => (i > 1 /\ Place(reqs[i - 1]) = Place(reqs[i]) - 1)

PrefixParseErrors ==
    {i \in 1..Len(logLines) :
        /\ logLines[i].level = "error"
        /\ Len(logLines[i].message) = 2
        /\ logLines[i].message[2] \in
              {"Contatos (prefixo)", "Conversas (prefixo)", "Mensagens (prefixo)"}}

\* C23: a prefix load issues its requests one at a time, in the order summary,
\* contacts, chats, messages with the primary resource before its fallback:
\* the request it awaits is the last it issued; nothing is parsed before the
\* last request has settled, and applyData is called in the continuation of
\* the messages request, after which the load issues no request; between two
\* requests of a load the store is not touched by it.
C23_RequestsInSequence ==
    /\ [](\A p \in Procs :
            procs[p].kind = "prefix"
                => /\ InOrder(procs[p].reqs)
                   /\ InFlight(p) => procs[p].pc = procs[p].reqs[Len(procs[p].reqs)]
                   /\ Done(procs[p])
                         => /\ procs[p].nth > 0
                            /\ \A k \in Keys :
                                  \E i \in 1..Len(procs[p].reqs) :
                                      procs[p].reqs[i] = <<k, "_export_status.ndjson">>)
    /\ []((PrefixParseErrors # {})
            => \E p \in Procs : procs[p].kind = "prefix" /\ procs[p].nth > 0)
    /\ [][\A p \in Procs :
            (procs[p].kind = "prefix" /\ procs'[p].nth # procs[p].nth)
                => /\ procs[p].pc[1] = "messages"
                   /\ procs'[p].reqs = procs[p].reqs
                   /\ Done(procs'[p])]_vars
    /\ [][\A p \in Procs :
            (procs[p].kind = "prefix" /\ procs'[p].reqs # procs[p].reqs)
                => (state' = state /\ applyCount' = applyCount)]_vars

\* a prefix load has asked for six resources, with the fallback of the chats
\* and of the messages and without that of the summary and of the contacts,
\* and has applied after parsing a text with a line that does not decode
C23_Witness ==
    \E p \in Procs :
        /\ procs[p].kind = "prefix"
        /\ procs[p].nth > 0
        /\ procs[p].reqs = <<RequestOrder[1], RequestOrder[3], RequestOrder[5],
                             RequestOrder[6], RequestOrder[7], RequestOrder[8]>>
        /\ PrefixParseErrors # {}


\* the self-test runs that have started and not ended
TestsInFlight == {p \in Procs : procs[p].kind = "test" /\ procs[p].pc # <<"done">>}

\* C24: the self-test button is disabled exactly while a self-test run is in
\* flight: from the click that starts the run until the run ends, by success
\* or by any failure, when it is enabled again; so no two runs are in flight
\* together.
C24_TestButtonDisabledWhileRunning ==
    /\ button.disabled <=> (TestsInFlight # {})
    /\ Cardinality(TestsInFlight) <= 1

\* a first run has ended in failure and the button, enabled again, has been
\* clicked: the second run is in flight and the button is disabled
C24_Witness ==
    /\ procs[1].kind = "test"
    /\ procs[1].pc = <<"done">>
    /\ procs[1].result = "error"
    /\ TestsInFlight = {2}
    /\ button.disabled


====
